---- MODULE Spec2Model ----
(***************************************************************************)
(* Marathon pace simulator: physics model, course model and pacing         *)
(* strategy (src/lib/physics.py, course_data.py, gpx_handler.py,           *)
(* pacing_strategy.py) and the run entry of src/app.py.                    *)
(*                                                                         *)
(* Number representation.  The program computes in binary floating point.  *)
(* The model computes in integers:                                         *)
(*   distance   metres                  (km * 1000)                        *)
(*   gradient   1e-4 (rise/run * 10000)                                    *)
(*   speed      cm/s  (m/s * 100); wind likewise                           *)
(*   power      1e-5 W                                                     *)
(*   time       ms                                                         *)
(*   angle      whole degrees                                              *)
(* The pacing multipliers are exact rationals <<n, d>> (d > 0, reduced);   *)
(* <<0,0>>, <<1,0>>, <<-1,0>> are IEEE nan, +inf, -inf, which numpy        *)
(* produces on a division by zero.                                         *)
(***************************************************************************)
EXTENDS Integers, Sequences, FiniteSets, TLC

\* ------------------------------------------------------------------ bounds
\* Number of generate_pace_table invocations that may be in flight at once.
NumInv == 2
\* Number of times generate_pace_table may be called on one strategy object.
MaxCalls == 2

\* --------------------------------------------------------- program constants
CANONICAL_M == 42195
RESCALE_THRESHOLD_M == 40000
GRID_M == 5
SPEED_MIN == 10
SPEED_MAX == 1000
STALL_TIME_MS == 9999000
STALL_PACE_MS == 1800000
DEFAULT_VDOT == 450
FRONTAL_AREA == 400
REF_MASS == 65
GRAD_CLIP == 2000
FLAT_COST == 3600000

\* ------------------------------------------------------------- arithmetic
Abs(x) == IF x < 0 THEN -x ELSE x

Sign(x) == IF x < 0 THEN -1 ELSE IF x > 0 THEN 1 ELSE 0

Max(a, b) == IF a >= b THEN a ELSE b

RECURSIVE GCD(_, _)
GCD(a, b) == IF b = 0 THEN a ELSE GCD(b, a % b)

\* The rational n/d in lowest terms with a positive denominator (d # 0).
Rat(n, d) ==
  LET g == GCD(Abs(n), Abs(d))
      s == IF d < 0 THEN -1 ELSE 1
  IN  <<(s * n) \div g, (s * d) \div g>>

IsFinite(x) == x[2] # 0

NaN == <<0, 0>>

RAdd(x, y) ==
  IF ~IsFinite(x) \/ ~IsFinite(y)
  THEN IF IsFinite(x) THEN y
       ELSE IF IsFinite(y) THEN x
       ELSE IF x = y THEN x ELSE NaN
  ELSE LET g == GCD(x[2], y[2])
           l == (x[2] \div g) * y[2]
       IN  Rat(x[1] * (l \div x[2]) + y[1] * (l \div y[2]), l)

RMul(x, y) ==
  LET g1 == GCD(Abs(x[1]), y[2])
      g2 == GCD(Abs(y[1]), x[2])
      h1 == IF g1 = 0 THEN 1 ELSE g1
      h2 == IF g2 = 0 THEN 1 ELSE g2
  IN  Rat((x[1] \div h1) * (y[1] \div h2), (x[2] \div h2) * (y[2] \div h1))

\* IEEE division as numpy performs it: x/0 is +-inf, 0/0 is nan, no exception.
RDiv(x, y) ==
  IF y[1] = 0 THEN <<Sign(x[1]), 0>>
  ELSE RMul(x, Rat(y[2], y[1]))

\* The exact sum of s[lo..hi], split in halves to keep the evaluation shallow.
RECURSIVE RSumRange(_, _, _)
RSumRange(s, lo, hi) ==
  IF lo > hi THEN <<0, 1>>
  ELSE IF lo = hi THEN s[lo]
  ELSE LET mid == (lo + hi) \div 2
       IN  RAdd(RSumRange(s, lo, mid), RSumRange(s, mid + 1, hi))

RSum(s, i) == RSumRange(s, i, Len(s))

\* floor(a * n / d) for a, n >= 0, d > 0 by long multiplication over the binary
\* digits of a (no intermediate product leaves the machine integer range).
RECURSIVE MulDivAcc(_, _, _)
MulDivAcc(a, n, d) ==
  IF a = 0 THEN <<0, 0>>
  ELSE LET hi == MulDivAcc(a \div 2, n, d)
           t  == hi[2] * 2 + (a % 2) * n
       IN  <<hi[1] * 2 + t \div d, t % d>>

MulDiv(a, n, d) == MulDivAcc(a, n, d)[1]

\* ---------------------------------------------------------------- physics
\* A variant of the polynomial with the sign of the linear term reversed.
minetti_cost_linear_term_negated(g) ==
  LET g2 == g * g
      t3 == ((g2 \div 10) * g) \div 1000
      t4 == (t3 * g) \div 10000
      t5 == (t4 * g) \div 10000
  IN  (1554 * t5) \div 1000 - (304 * t4) \div 1000 - (433 * t3) \div 1000
        + (463 * g2) \div 1000 - 1950 * g + 3600000

\* Minetti polynomial, gradient g in 1e-4, result in 1e-6 J/kg/m.
minetti_cost_j_kg_m(g) ==
  LET g2 == g * g
      t3 == ((g2 \div 10) * g) \div 1000
      t4 == (t3 * g) \div 10000
      t5 == (t4 * g) \div 10000
  IN  (1554 * t5) \div 1000 - (304 * t4) \div 1000 - (433 * t3) \div 1000
        + (463 * g2) \div 1000 + 1950 * g + 3600000

\* A variant of the drag power without the sign of the relative air speed: the
\* force is a magnitude and never assists.
calculate_drag_power_unsigned(velocity, wind_velocity_parallel, frontal_area) ==
  LET v_rel == velocity - wind_velocity_parallel
      force_drag == (((v_rel * v_rel * frontal_area) \div 1000) * 441) \div 800
  IN  (force_drag * velocity) \div 10

\* A variant of the drag power with the wind sign convention reversed (positive
\* taken as headwind).
calculate_drag_power_positive_headwind(velocity, wind_velocity_parallel, frontal_area) ==
  LET v_rel == velocity + wind_velocity_parallel
      force_drag == (((v_rel * v_rel * Sign(v_rel) * frontal_area) \div 1000) * 441) \div 800
  IN  (force_drag * velocity) \div 10

\* Mechanical drag power (1e-5 W): 0.5 * rho * Cd * A * v_rel^2 * sign(v_rel) * v,
\* with 0.5 * 1.225 * 0.9 = 441/800 and the area in 1e-3 m^2.
calculate_drag_power_watts(velocity, wind_velocity_parallel, frontal_area) ==
  LET v_rel == velocity - wind_velocity_parallel
      force_drag == (((v_rel * v_rel * Sign(v_rel) * frontal_area) \div 1000) * 441) \div 800
  IN  (force_drag * velocity) \div 10

mechanical_to_metabolic_power(mech_power) == mech_power * 4

\* Integer cube root.
RECURSIVE ICbrtIn(_, _, _)
ICbrtIn(n, lo, hi) ==
  IF hi - lo <= 1 THEN lo
  ELSE LET mid == (lo + hi) \div 2
       IN  IF mid * mid * mid <= n THEN ICbrtIn(n, mid, hi) ELSE ICbrtIn(n, lo, mid)

\* (mass / 65) ^ (2/3) in percent: the cube root of (mass / 65)^2 * 1e6.
AreaScalePct(mass) ==
  ICbrtIn((mass * mass * 40000) \div ((REF_MASS * REF_MASS) \div 25), 0, 1000)

calculate_total_power(velocity, gradient, wind_speed, mass) ==
  IF velocity <= 0 THEN 0
  ELSE LET cost_per_meter == minetti_cost_j_kg_m(gradient) \div 1000
           p_base == cost_per_meter * mass * velocity
           effective_area == (FRONTAL_AREA * AreaScalePct(mass)) \div 100
           p_mech_drag == calculate_drag_power_watts(velocity, wind_speed, effective_area)
       IN  p_base + mechanical_to_metabolic_power(p_mech_drag)

\* Bracketed root search on the speed grid: the largest v in lo..hi whose power
\* does not exceed target, given power(lo) <= target <= power(hi).
RECURSIVE Bracket(_, _, _, _, _, _)
Bracket(lo, hi, target, gradient, wind_speed, mass) ==
  IF hi - lo <= 1
  THEN IF calculate_total_power(hi, gradient, wind_speed, mass) <= target THEN hi ELSE lo
  ELSE LET mid == (lo + hi) \div 2
       IN  IF calculate_total_power(mid, gradient, wind_speed, mass) <= target
           THEN Bracket(mid, hi, target, gradient, wind_speed, mass)
           ELSE Bracket(lo, mid, target, gradient, wind_speed, mass)

\* A variant of the solver without the test of func(0.1): a target below the
\* power at 0.1 m/s leaves the bracket without a sign change.
solve_speed_unclamped(target_power, gradient, wind_speed, mass) ==
  IF ~IsFinite(target_power) THEN 0
  ELSE LET t  == target_power[1]
           f1 == calculate_total_power(SPEED_MIN, gradient, wind_speed, mass) - t
           f2 == calculate_total_power(SPEED_MAX, gradient, wind_speed, mass) - t
       IN  IF f1 > 0 \/ f2 < 0 THEN 0
           ELSE Bracket(SPEED_MIN, SPEED_MAX, t, gradient, wind_speed, mass)

\* target_power is an extended real <<p, 1>> or nan/inf.  func(0.1) > 0 returns
\* 0.1; a bracket without a sign change, or a nan function value, makes brentq
\* raise ValueError, which is caught and returns 0.
solve_speed_for_power(target_power, gradient, wind_speed, mass) ==
  IF ~IsFinite(target_power)
  THEN IF target_power[1] < 0 THEN SPEED_MIN ELSE 0
  ELSE LET t  == target_power[1]
           f1 == calculate_total_power(SPEED_MIN, gradient, wind_speed, mass) - t
           f2 == calculate_total_power(SPEED_MAX, gradient, wind_speed, mass) - t
       IN  IF f1 > 0 THEN SPEED_MIN
           ELSE IF f1 = 0 THEN SPEED_MIN
           ELSE IF f2 < 0 THEN 0
           ELSE Bracket(SPEED_MIN, SPEED_MAX, t, gradient, wind_speed, mass)

\* Integer square root.
RECURSIVE ISqrtIn(_, _, _)
ISqrtIn(n, lo, hi) ==
  IF hi - lo <= 1 THEN lo
  ELSE LET mid == (lo + hi) \div 2
       IN  IF mid * mid <= n THEN ISqrtIn(n, mid, hi) ELSE ISqrtIn(n, lo, mid)

\* Daniels regression inverted: vdot in tenths, result in cm/s.
\* b^2 * 1e10 = 332179786, 4a * 1e10 per tenth of vdot = 416000, b * 1e5 = 18226.
vdot_to_flat_velocity(vdot) ==
  LET disc == 332179786 + 416000 * (vdot + 46)
      root == ISqrtIn(disc, 0, 46341)
  IN  ((root - 18226) * 1000) \div 12480

\* Python None (an omitted optional argument).
None == -1

\* cos of a whole-degree angle in 1e-3 (Bhaskara's rational approximation; exact
\* at the multiples of 60 and 90 degrees).
CosMilli(deg) ==
  LET a == ((deg % 360) + 360) % 360
      b == IF a > 180 THEN 360 - a ELSE a
      B(x) == (1000 * (32400 - 4 * x * x)) \div (32400 + x * x)
  IN  IF b <= 90 THEN B(b) ELSE -B(180 - b)

\* ----------------------------------------------------------------- course
\* CourseSegment's declared fields; distances in metres, gradient in 1e-4.
SegmentFields ==
  {"start_km", "end_km", "gradient", "bearing_degrees", "is_exposed_to_wind", "description"}

CourseSegment(start_km, end_km, gradient, bearing_degrees, is_exposed_to_wind, description) ==
  [start_km |-> start_km, end_km |-> end_km, gradient |-> gradient,
   bearing_degrees |-> bearing_degrees, is_exposed_to_wind |-> is_exposed_to_wind,
   description |-> description]

get_ehime_marathon_default ==
  << CourseSegment(0, 7000, 0, 10, FALSE, "Start Flat"),
     CourseSegment(7000, 8000, 400, 20, TRUE, "Hirata Hill (Out)"),
     CourseSegment(8000, 10000, -200, 30, FALSE, "Descent to Coast"),
     CourseSegment(10000, 25000, 0, 45, TRUE, "Coastal Outbound (Windy)"),
     CourseSegment(25000, 34000, 0, 225, TRUE, "Coastal Inbound (Windy)"),
     CourseSegment(34000, 36000, 100, 200, FALSE, "Approach Hirata"),
     CourseSegment(36000, 37000, 400, 200, TRUE, "Hirata Hill (Return)"),
     CourseSegment(37000, 42195, 100, 190, FALSE, "Gradual Uphill to Goal") >>

\* The first segment containing current_km, else the last segment at or beyond
\* its end, else 0 (Python None); 1-based index into segments.
get_segment_at_km(segments, current_km) ==
  LET hits == {k \in 1..Len(segments) :
                 segments[k].start_km <= current_km /\ current_km < segments[k].end_km}
  IN  IF hits # {} THEN CHOOSE k \in hits : \A j \in hits : k <= j
      ELSE IF Len(segments) > 0 /\ current_km >= segments[Len(segments)].end_km
           THEN Len(segments)
           ELSE 0

\* A variant of the cursor that moves forward by one segment at most (an "if"
\* in place of the "while").
AdvanceCursorOnce(segments, seg_idx, current_km) ==
  IF seg_idx < Len(segments) /\ segments[seg_idx].end_km <= current_km
  THEN seg_idx + 1
  ELSE seg_idx

\* The inner "move forward" loop of the sampling cursor.
RECURSIVE AdvanceCursor(_, _, _)
AdvanceCursor(segments, seg_idx, current_km) ==
  IF seg_idx < Len(segments) /\ segments[seg_idx].end_km <= current_km
  THEN AdvanceCursor(segments, seg_idx + 1, current_km)
  ELSE seg_idx

\* A variant of the fallback point that keeps wind exposure switched on.
GapPointExposed(current_km) ==
  [km |-> current_km, gradient |-> 0, bearing |-> 0, wind_exposed |-> TRUE,
   segment_name |-> "Course Gap (Assumed Flat)"]

GapPoint(current_km) ==
  [km |-> current_km, gradient |-> 0, bearing |-> 0, wind_exposed |-> FALSE,
   segment_name |-> "Course Gap (Assumed Flat)"]

SegPoint(found_seg, current_km) ==
  [km |-> current_km, gradient |-> found_seg.gradient, bearing |-> found_seg.bearing_degrees,
   wind_exposed |-> found_seg.is_exposed_to_wind, segment_name |-> found_seg.description]

\* A variant of the sampling loop that stops before the finish
\* (current_km < total_dist_km).
RECURSIVE SampleLoopBeforeFinish(_, _, _, _, _)
SampleLoopBeforeFinish(segments, interval_m, total_dist, current_km, seg_idx) ==
  IF current_km >= total_dist THEN <<>>
  ELSE LET n     == Len(segments)
           enter == n > 0 /\ segments[seg_idx].start_km <= current_km
           idx   == IF enter THEN AdvanceCursor(segments, seg_idx, current_km) ELSE seg_idx
           found == IF ~enter THEN 0
                    ELSE IF segments[idx].start_km <= current_km
                            /\ current_km < segments[idx].end_km THEN idx
                    ELSE IF current_km >= segments[n].end_km THEN n
                    ELSE 0
           point == IF found # 0 THEN SegPoint(segments[found], current_km)
                    ELSE GapPoint(current_km)
       IN  <<point>> \o SampleLoopBeforeFinish(segments, interval_m, total_dist,
                                               current_km + interval_m, idx)

\* The sampling loop: current_km <= total_dist_km + 0.0001 (0.1 m), one point
\* appended per pass, the cursor seg_idx carried from pass to pass.
RECURSIVE SampleLoop(_, _, _, _, _)
SampleLoop(segments, interval_m, total_dist, current_km, seg_idx) ==
  IF current_km * 10 > total_dist * 10 + 1 THEN <<>>
  ELSE LET n     == Len(segments)
           enter == n > 0 /\ segments[seg_idx].start_km <= current_km
           idx   == IF enter THEN AdvanceCursor(segments, seg_idx, current_km) ELSE seg_idx
           found == IF ~enter THEN 0
                    ELSE IF segments[idx].start_km <= current_km
                            /\ current_km < segments[idx].end_km THEN idx
                    ELSE IF current_km >= segments[n].end_km THEN n
                    ELSE 0
           point == IF found # 0 THEN SegPoint(segments[found], current_km)
                    ELSE GapPoint(current_km)
       IN  <<point>> \o SampleLoop(segments, interval_m, total_dist, current_km + interval_m, idx)

sample_at_interval_meters(segments, interval_m) ==
  LET total_dist == IF Len(segments) > 0
                    THEN Max(CANONICAL_M, segments[Len(segments)].end_km)
                    ELSE CANONICAL_M
  IN  SampleLoop(segments, interval_m, total_dist, 0, 1)

\* The value of the cursor seg_idx at the end of each pass of the sampling loop
\* (1-based; the code's 0-based index plus one).
RECURSIVE CursorLoop(_, _, _, _, _)
CursorLoop(segments, interval_m, total_dist, current_km, seg_idx) ==
  IF current_km * 10 > total_dist * 10 + 1 THEN <<>>
  ELSE LET enter == Len(segments) > 0 /\ segments[seg_idx].start_km <= current_km
           idx   == IF enter THEN AdvanceCursor(segments, seg_idx, current_km) ELSE seg_idx
       IN  <<idx>> \o CursorLoop(segments, interval_m, total_dist, current_km + interval_m, idx)

sample_cursor(segments, interval_m) ==
  LET total_dist == IF Len(segments) > 0
                    THEN Max(CANONICAL_M, segments[Len(segments)].end_km)
                    ELSE CANONICAL_M
  IN  CursorLoop(segments, interval_m, total_dist, 0, 1)

\* --------------------------------------------------------- pacing strategy
Truthy(x) == x # None /\ x # 0

\* PacingStrategy.__init__: req gives the arguments passed; an omitted vdot
\* takes the signature's default 45.0.
PacingStrategy(req) ==
  LET vdot == IF req.vdot = None THEN DEFAULT_VDOT ELSE req.vdot
      base_speed_ms ==
        IF Truthy(req.target_time_sec)
        THEN (CANONICAL_M * 100) \div req.target_time_sec
        ELSE (vdot_to_flat_velocity(vdot) * 82) \div 100
  IN  [mass |-> req.mass, vdot |-> vdot,
       wind_speed_ms |-> req.wind_speed_ms, wind_dir_degrees |-> req.wind_dir_degrees,
       hill_preference |-> req.hill_preference, pacing_preference |-> req.pacing_preference,
       base_speed_ms |-> base_speed_ms,
       target_power |-> calculate_total_power(base_speed_ms, 0, 0, req.mass)]

\* Split strategy: 1, 1.05 - 0.10 f or 0.95 + 0.10 f with f = km / 42.195.
SplitFactor(pacing_preference, km) ==
  LET f == Rat(km, CANONICAL_M)
  IN  IF pacing_preference = "positive"
      THEN RAdd(<<21, 20>>, RMul(<<-1, 10>>, f))
      ELSE IF pacing_preference = "negative"
      THEN RAdd(<<19, 20>>, RMul(<<1, 10>>, f))
      ELSE <<1, 1>>

\* Hill strategy: 1 + gradient * K, K = (hill_preference / 100 - 1) / 0.05.
\* A variant of the hill factor that takes 10% as the reference gradient.
HillFactorReferenceTenPercent(hill_preference, gradient) ==
  LET target_ratio == Rat(hill_preference, 100)
      k_factor == RDiv(RAdd(target_ratio, <<-1, 1>>), <<1, 10>>)
  IN  RAdd(<<1, 1>>, RMul(Rat(gradient, 10000), k_factor))

HillFactor(hill_preference, gradient) ==
  LET target_ratio == Rat(hill_preference, 100)
      k_factor == RDiv(RAdd(target_ratio, <<-1, 1>>), <<1, 20>>)
  IN  RAdd(<<1, 1>>, RMul(Rat(gradient, 10000), k_factor))

RawMultipliers(strategy, df) ==
  [i \in 1..Len(df) |->
     RMul(SplitFactor(strategy.pacing_preference, df[i].km),
          HillFactor(strategy.hill_preference, df[i].gradient))]

\* A variant of the mean that divides by one less than the count.
MeanOfFewer(s) == RDiv(RSum(s, 1), <<Len(s) - 1, 1>>)

Mean(s) == RDiv(RSum(s, 1), <<Len(s), 1>>)

\* Normalisation: every raw multiplier divided by the mean of the raw multipliers.
FinalMultipliers(strategy, df) ==
  LET raw_multipliers == RawMultipliers(strategy, df)
      avg_mult == Mean(raw_multipliers)
  IN  [i \in 1..Len(df) |-> RDiv(raw_multipliers[i], avg_mult)]

\* target_power * multiplier as an extended real in power units.
SegmentPower(target_power, mult) ==
  IF ~IsFinite(mult)
  THEN IF target_power = 0 THEN NaN ELSE mult
  ELSE <<Sign(mult[1]) * MulDiv(target_power, Abs(mult[1]), mult[2]), 1>>

\* A variant of the wind component that takes wind_dir_degrees as the direction
\* the wind blows toward.
WindParallelToward(wind_speed_ms, wind_dir_degrees, bearing) ==
  (wind_speed_ms * CosMilli(wind_dir_degrees - bearing)) \div 1000

\* The wind component along the direction of travel (positive = tailwind): the
\* wind blows toward wind_dir_degrees + 180.
WindParallel(wind_speed_ms, wind_dir_degrees, bearing) ==
  LET wind_vector_dir == wind_dir_degrees + 180
  IN  (wind_speed_ms * CosMilli(wind_vector_dir - bearing)) \div 1000

\* A variant of the loop pass that divides by every speed above 0 instead of
\* every speed above 0.1.
PaceRowDividesAboveZero(strategy, row, mult, interval_meters, cumulative_time) ==
  LET segment_power == SegmentPower(strategy.target_power, mult)
      wind_parallel == WindParallel(strategy.wind_speed_ms, strategy.wind_dir_degrees,
                                    row.bearing)
      effective_wind == IF row.wind_exposed THEN wind_parallel ELSE 0
      calc_gradient == IF row.gradient < 0 THEN (row.gradient * 6) \div 10 ELSE row.gradient
      optimal_speed == solve_speed_for_power(segment_power, calc_gradient, effective_wind,
                                             strategy.mass)
      time_sec == IF optimal_speed > 0
                  THEN (interval_meters * 100000) \div optimal_speed
                  ELSE STALL_TIME_MS
      pace_min_km == IF optimal_speed > 0
                     THEN 100000000 \div optimal_speed
                     ELSE STALL_PACE_MS
  IN  [out |-> [km |-> row.km, gradient |-> row.gradient, segment_name |-> row.segment_name,
                speed_ms |-> optimal_speed, pace_min_km |-> pace_min_km,
                time_sec |-> time_sec, cumulative_time_sec |-> cumulative_time + time_sec],
       locals |-> [segment_power |-> segment_power, effective_wind |-> effective_wind,
                   calc_gradient |-> calc_gradient, wind_exposed |-> row.wind_exposed,
                   bearing |-> row.bearing]]

\* A variant of the loop pass that reports the damped gradient in the row.
PaceRowReportsDamped(strategy, row, mult, interval_meters, cumulative_time) ==
  LET segment_power == SegmentPower(strategy.target_power, mult)
      wind_parallel == WindParallel(strategy.wind_speed_ms, strategy.wind_dir_degrees,
                                    row.bearing)
      effective_wind == IF row.wind_exposed THEN wind_parallel ELSE 0
      calc_gradient == IF row.gradient < 0 THEN (row.gradient * 6) \div 10 ELSE row.gradient
      optimal_speed == solve_speed_for_power(segment_power, calc_gradient, effective_wind,
                                             strategy.mass)
      time_sec == IF optimal_speed > SPEED_MIN
                  THEN (interval_meters * 100000) \div optimal_speed
                  ELSE STALL_TIME_MS
      pace_min_km == IF optimal_speed > SPEED_MIN
                     THEN 100000000 \div optimal_speed
                     ELSE STALL_PACE_MS
  IN  [out |-> [km |-> row.km, gradient |-> calc_gradient, segment_name |-> row.segment_name,
                speed_ms |-> optimal_speed, pace_min_km |-> pace_min_km,
                time_sec |-> time_sec, cumulative_time_sec |-> cumulative_time + time_sec],
       locals |-> [segment_power |-> segment_power, effective_wind |-> effective_wind,
                   calc_gradient |-> calc_gradient, wind_exposed |-> row.wind_exposed,
                   bearing |-> row.bearing]]

\* One pass of the simulation loop over a sampled row: the loop's locals and
\* the row appended to results.
PaceRow(strategy, row, mult, interval_meters, cumulative_time) ==
  LET segment_power == SegmentPower(strategy.target_power, mult)
      wind_parallel == WindParallel(strategy.wind_speed_ms, strategy.wind_dir_degrees,
                                    row.bearing)
      effective_wind == IF row.wind_exposed THEN wind_parallel ELSE 0
      calc_gradient == IF row.gradient < 0 THEN (row.gradient * 6) \div 10 ELSE row.gradient
      optimal_speed == solve_speed_for_power(segment_power, calc_gradient, effective_wind,
                                             strategy.mass)
      time_sec == IF optimal_speed > SPEED_MIN
                  THEN (interval_meters * 100000) \div optimal_speed
                  ELSE STALL_TIME_MS
      pace_min_km == IF optimal_speed > SPEED_MIN
                     THEN 100000000 \div optimal_speed
                     ELSE STALL_PACE_MS
  IN  [out |-> [km |-> row.km, gradient |-> row.gradient, segment_name |-> row.segment_name,
                speed_ms |-> optimal_speed, pace_min_km |-> pace_min_km,
                time_sec |-> time_sec, cumulative_time_sec |-> cumulative_time + time_sec],
       locals |-> [segment_power |-> segment_power, effective_wind |-> effective_wind,
                   calc_gradient |-> calc_gradient, wind_exposed |-> row.wind_exposed,
                   bearing |-> row.bearing]]

\* generate_pace_table run from start to end on its own: the rows it returns.
RECURSIVE PaceRows(_, _, _, _, _, _)
PaceRows(strategy, rows, mults, interval_meters, k, cumulative_time) ==
  IF k > Len(rows) THEN <<>>
  ELSE LET r == PaceRow(strategy, rows[k], mults[k], interval_meters, cumulative_time).out
       IN  <<r>> \o PaceRows(strategy, rows, mults, interval_meters, k + 1,
                             r.cumulative_time_sec)

generate_pace_table(strategy, segments, interval_meters) ==
  LET rows == sample_at_interval_meters(segments, interval_meters)
  IN  IF Len(rows) = 0 THEN <<>>
      ELSE PaceRows(strategy, rows, FinalMultipliers(strategy, rows), interval_meters, 1, 0)

\* ------------------------------------------------------------ track import
\* A raw track point.  The modelled tracks run along one meridian: lat is the
\* arc length north of the start in metres, so the great-circle distance of two
\* points is the difference of their lat; ele is in mm.
TrackPoint(lat, ele) == [lat |-> lat, lon |-> 0, ele |-> ele]

haversine_vectorized(p, q) == Abs(q.lat - p.lat)

\* Forward bearing of two points of one meridian: atan2(0, x) is 0 for x >= 0
\* and 180 for x < 0.
calc_bearing_vec(lat1, lat2) == IF lat2 < lat1 THEN 180 ELSE 0

RECURSIVE CumSum(_, _)
CumSum(points, k) ==
  IF k = 1 THEN <<0>>
  ELSE LET c == CumSum(points, k - 1)
       IN  Append(c, c[k - 1] + haversine_vectorized(points[k - 1], points[k]))

\* A variant of the window size that leaves an even count even.
WindowSizeNotMadeOdd(window_meters) ==
  LET w0 == window_meters \div GRID_M
  IN  IF w0 < 1 THEN 1 ELSE w0

\* int(window_meters / 5), at least 1, made odd.
WindowSize(window_meters) ==
  LET w0 == window_meters \div GRID_M
      w1 == IF w0 < 1 THEN 1 ELSE w0
  IN  IF w1 % 2 = 0 THEN w1 + 1 ELSE w1

RLeq(x, y) == x[1] * y[2] <= y[1] * x[2]

\* np.interp of the integer abscissa x over the rational abscissae xs: the
\* rational position t in [0, 1] within the bracketing pair j, j+1.
InterpAt(x, xs) ==
  LET n == Len(xs)
  IN  IF RLeq(<<x, 1>>, xs[1]) THEN [j |-> 1, t |-> <<0, 1>>]
      ELSE IF RLeq(xs[n], <<x, 1>>) THEN [j |-> n, t |-> <<0, 1>>]
      ELSE LET j == CHOOSE k \in 1..(n - 1) :
                      RLeq(xs[k], <<x, 1>>) /\ ~RLeq(xs[k + 1], <<x, 1>>)
           IN  [j |-> j,
                t |-> RDiv(RAdd(<<x, 1>>, <<-xs[j][1], xs[j][2]>>),
                           RAdd(xs[j + 1], <<-xs[j][1], xs[j][2]>>))]

Interp(x, xs, ys) ==
  LET at == InterpAt(x, xs)
      dy == IF at.j < Len(ys) THEN ys[at.j + 1] - ys[at.j] ELSE 0
  IN  ys[at.j] + Sign(dy) * MulDiv(Abs(dy), at.t[1], at.t[2])

\* parse_to_dataframe up to the resampling grid: the cumulative distances
\* (rescaled when the raw length exceeds 40 km), the number of 5 m rows
\* np.arange(0, total, 5) yields, and the error raised by bearings[-1] when
\* there are fewer than two rows.
parse_to_dataframe(points, window_meters) ==
  IF Len(points) = 0
  THEN [empty |-> TRUE, error |-> "none", rows |-> 0, total_raw_dist |-> 0,
        scale_factor |-> <<1, 1>>, raw_cum_dist |-> <<>>, points |-> points,
        window_size |-> WindowSize(window_meters)]
  ELSE LET cum == CumSum(points, Len(points))
           total_raw_dist == cum[Len(cum)]
           scale_factor == IF total_raw_dist > RESCALE_THRESHOLD_M
                           THEN Rat(CANONICAL_M, total_raw_dist)
                           ELSE <<1, 1>>
           raw_cum_dist == [k \in 1..Len(cum) |->
                              IF total_raw_dist > RESCALE_THRESHOLD_M
                              THEN RMul(<<cum[k], 1>>, scale_factor)
                              ELSE <<cum[k], 1>>]
           last == raw_cum_dist[Len(cum)]
           rows == (last[1] + GRID_M * last[2] - 1) \div (GRID_M * last[2])
       IN  [empty |-> rows = 0, error |-> IF rows < 2 THEN "IndexError" ELSE "none",
            rows |-> rows, total_raw_dist |-> total_raw_dist,
            scale_factor |-> scale_factor, raw_cum_dist |-> raw_cum_dist,
            points |-> points, window_size |-> WindowSize(window_meters)]

DfDistance(k) == GRID_M * (k - 1)

DfLat(df, k) ==
  Interp(DfDistance(k), df.raw_cum_dist, [j \in 1..Len(df.points) |-> df.points[j].lat])

DfEle(df, k) ==
  Interp(DfDistance(k), df.raw_cum_dist, [j \in 1..Len(df.points) |-> df.points[j].ele])

\* Bearing from row k to row k + 1; the last row repeats the one before it.
DfBearing(df, k) ==
  LET i == IF k < df.rows THEN k ELSE df.rows - 1
  IN  calc_bearing_vec(DfLat(df, i), DfLat(df, i + 1))

\* The centred rolling window with min_periods = 1 at row k of n rows.
WindowLo(k, window_size) == Max(1, k - (window_size - 1) \div 2)

WindowHi(n, k, window_size) ==
  LET h == (window_size - 1) \div 2
  IN  IF k + h > n THEN n ELSE k + h

RECURSIVE EleSum(_, _, _)
EleSum(df, lo, hi) == IF lo > hi THEN 0 ELSE DfEle(df, lo) + EleSum(df, lo + 1, hi)

DfEleSmooth(df, k) ==
  LET lo == WindowLo(k, df.window_size)
      hi == WindowHi(df.rows, k, df.window_size)
  IN  EleSum(df, lo, hi) \div (hi - lo + 1)

\* A variant of the first gradient without the clip.
DfGradientUnclipped(df, k) ==
  LET ele_diff == IF k = 1 THEN 0 ELSE DfEleSmooth(df, k) - DfEleSmooth(df, k - 1)
  IN  2 * ele_diff

\* diff().fillna(0) / 5 m in 1e-4 (2 per mm), clipped to +-0.2.
DfGradientClipped(df, k) ==
  LET ele_diff == IF k = 1 THEN 0 ELSE DfEleSmooth(df, k) - DfEleSmooth(df, k - 1)
      g == 2 * ele_diff
  IN  IF g < -GRAD_CLIP THEN -GRAD_CLIP ELSE IF g > GRAD_CLIP THEN GRAD_CLIP ELSE g

RECURSIVE GradientSum(_, _, _)
GradientSum(df, lo, hi) ==
  IF lo > hi THEN 0 ELSE DfGradientClipped(df, lo) + GradientSum(df, lo + 1, hi)

\* The clipped gradient smoothed again over the same window.
DfGradient(df, k) ==
  LET lo == WindowLo(k, df.window_size)
      hi == WindowHi(df.rows, k, df.window_size)
  IN  GradientSum(df, lo, hi) \div (hi - lo + 1)

\* The label rules of to_course_data (start in metres; the Japanese labels are
\* written in ASCII).
Description(start_km) ==
  IF 7000 <= start_km /\ start_km <= 8000 THEN "Hirata (out)"
  ELSE IF 36000 <= start_km /\ start_km <= 37000 THEN "Hirata (return)"
  ELSE IF 10000 <= start_km /\ start_km <= 34000 THEN "Coast"
  ELSE ""

\* The keyword arguments to_course_data passes to CourseSegment.
ToCourseDataKeywords == SegmentFields \cup {"start_lat", "start_lon"}

\* A dataclass constructor raises TypeError on a keyword that is no field.
ConstructorAccepts(keywords) == keywords \subseteq SegmentFields

\* The segment the loop body of to_course_data builds for row k.
EmitSegment(df, k) ==
  LET start_km == DfDistance(k)
      end_km == IF k < df.rows THEN DfDistance(k + 1) ELSE start_km + GRID_M
  IN  [start_km |-> start_km, end_km |-> end_km, gradient |-> DfGradient(df, k),
       bearing_degrees |-> DfBearing(df, k), is_exposed_to_wind |-> TRUE,
       description |-> Description(start_km),
       start_lat |-> DfLat(df, k), start_lon |-> 0]

\* to_course_data: [error, segments].
to_course_data(points, smoothing_window_m) ==
  LET df == parse_to_dataframe(points, smoothing_window_m)
  IN  IF df.error # "none" THEN [error |-> df.error, segments |-> <<>>]
      ELSE IF df.empty THEN [error |-> "none", segments |-> <<>>]
      ELSE IF ~ConstructorAccepts(ToCourseDataKeywords)
      THEN [error |-> "TypeError", segments |-> <<>>]
      ELSE [error |-> "none", segments |-> [k \in 1..df.rows |-> EmitSegment(df, k)]]

\* --------------------------------------------------------- capability table
\* A time string after split(':'): the sequence of its parts, each part what
\* int() makes of it - a number, or no number (ValueError).
Num(n) == [numeric |-> TRUE, value |-> n]

NoNum == [numeric |-> FALSE, value |-> 0]

AllNumeric(parts) == \A k \in 1..Len(parts) : parts[k].numeric

\* A variant of the parser that reads a two-part string as h:mm.
time_str_to_seconds_hours(parts) ==
  IF Len(parts) = 3
  THEN IF AllNumeric(parts)
       THEN parts[1].value * 3600 + parts[2].value * 60 + parts[3].value
       ELSE 0
  ELSE IF Len(parts) = 2
  THEN IF AllNumeric(parts) THEN parts[1].value * 3600 + parts[2].value * 60 ELSE 0
  ELSE 0

\* VDOTHandler._time_str_to_seconds: any exception gives 0.
time_str_to_seconds(parts) ==
  IF Len(parts) = 3
  THEN IF AllNumeric(parts)
       THEN parts[1].value * 3600 + parts[2].value * 60 + parts[3].value
       ELSE 0
  ELSE IF Len(parts) = 2
  THEN IF AllNumeric(parts) THEN parts[1].value * 60 + parts[2].value ELSE 0
  ELSE 0

\* The target-time field of the form in main(): list(map(int, ...)) raises
\* ValueError on a part that is no number, a wrong number of parts raises
\* ValueError, and ValueError leaves target_time_sec None.
form_target_time_sec(parts) ==
  IF ~AllNumeric(parts) THEN None
  ELSE IF Len(parts) = 3
  THEN parts[1].value * 3600 + parts[2].value * 60 + parts[3].value
  ELSE IF Len(parts) = 2
  THEN parts[1].value * 3600 + parts[2].value * 60 + 0
  ELSE None

\* A row of the capability table: VDOT in tenths, the marathon time string.
TableRow(vdot, marathon) == [VDOT |-> vdot, Marathon |-> marathon]

\* _parse_all_seconds: the VDOT column and the parsed time column, in file order.
parse_all_seconds(vdot_df) ==
  [vdots |-> [k \in 1..Len(vdot_df) |-> vdot_df[k].VDOT],
   seconds |-> [k \in 1..Len(vdot_df) |-> time_str_to_seconds(vdot_df[k].Marathon)]]

\* np.argsort: the indices of keys in ascending order of key.
RECURSIVE ArgSortRest(_, _)
ArgSortRest(keys, rest) ==
  IF rest = {} THEN <<>>
  ELSE LET m == CHOOSE i \in rest :
                  \A j \in rest : keys[i] < keys[j] \/ (keys[i] = keys[j] /\ i <= j)
       IN  <<m>> \o ArgSortRest(keys, rest \ {m})

ArgSort(keys) == ArgSortRest(keys, 1..Len(keys))

\* np.interp(x, xp, fp) in exact rationals (x rational, xp and fp integers):
\* fp[1] at or below xp[1], fp[n] at or above xp[n], linear in between.
InterpExact(x, xp, fp) ==
  LET n == Len(xp)
  IN  IF RLeq(x, <<xp[1], 1>>) THEN <<fp[1], 1>>
      ELSE IF RLeq(<<xp[n], 1>>, x) THEN <<fp[n], 1>>
      ELSE LET j == CHOOSE k \in 1..(n - 1) :
                      RLeq(<<xp[k], 1>>, x) /\ ~RLeq(<<xp[k + 1], 1>>, x)
               slope == Rat(fp[j + 1] - fp[j], xp[j + 1] - xp[j])
           IN  RAdd(<<fp[j], 1>>, RMul(slope, RAdd(x, <<-xp[j], 1>>)))

get_time_for_exact_vdot(vdot_df, vdot_float) ==
  LET parsed == parse_all_seconds(vdot_df)
      sort_idx == ArgSort(parsed.vdots)
      vdots == [k \in 1..Len(sort_idx) |-> parsed.vdots[sort_idx[k]]]
      seconds == [k \in 1..Len(sort_idx) |-> parsed.seconds[sort_idx[k]]]
  IN  InterpExact(vdot_float, vdots, seconds)

\* A variant of the inverse interpolation that sorts the table by VDOT, not by
\* time.
get_exact_vdot_sorted_by_vdot(vdot_df, target_seconds) ==
  LET parsed == parse_all_seconds(vdot_df)
      sort_idx == ArgSort(parsed.vdots)
      sorted_seconds == [k \in 1..Len(sort_idx) |-> parsed.seconds[sort_idx[k]]]
      sorted_vdots == [k \in 1..Len(sort_idx) |-> parsed.vdots[sort_idx[k]]]
  IN  InterpExact(target_seconds, sorted_seconds, sorted_vdots)

get_exact_vdot_from_time(vdot_df, target_seconds) ==
  LET parsed == parse_all_seconds(vdot_df)
      sort_idx == ArgSort(parsed.seconds)
      sorted_seconds == [k \in 1..Len(sort_idx) |-> parsed.seconds[sort_idx[k]]]
      sorted_vdots == [k \in 1..Len(sort_idx) |-> parsed.vdots[sort_idx[k]]]
  IN  InterpExact(target_seconds, sorted_seconds, sorted_vdots)

\* ------------------------------------------------------------------ inputs
Segment(a, b, g, brg, exposed) == CourseSegment(a, b, g, brg, exposed, "")

\* Hand-authored courses (CourseData() with segments appended by the caller).
FlatCourse == << Segment(0, 42195, 0, 0, FALSE) >>

GapCourse == << Segment(10000, 16000, 300, 90, TRUE), Segment(27000, 40000, -500, 180, TRUE) >>

TwinCourse == << Segment(0, 20000, 0, 180, TRUE), Segment(20000, 42195, 0, 180, FALSE) >>

SteepCourse == << Segment(0, 42195, 2000, 0, FALSE) >>

RollingCourse ==
  << Segment(0, 10000, 500, 0, TRUE), Segment(10000, 30000, -2000, 180, FALSE),
     Segment(30000, 50000, 2000, 0, TRUE) >>

ManualCourses == {FlatCourse, GapCourse, TwinCourse, SteepCourse, RollingCourse}

\* Courses given to the sampler directly: the built-in one, the hand-authored
\* ones, one without segments, one with a segment of no length, one of many
\* short segments with holes, one whose segments overlap and one whose
\* segments are out of order.
PointCourse ==
  << Segment(0, 10000, 100, 0, TRUE), Segment(10000, 10000, 900, 90, TRUE),
     Segment(10000, 42195, -100, 180, FALSE) >>

ShortStepsCourse ==
  << Segment(500, 1500, 100, 10, TRUE), Segment(1500, 2000, 200, 20, FALSE),
     Segment(2000, 2500, 300, 30, TRUE), Segment(6000, 9000, -400, 40, TRUE),
     Segment(9000, 30000, 500, 50, FALSE) >>

OverlapCourse == << Segment(0, 30000, 100, 0, TRUE), Segment(20000, 42195, -100, 180, FALSE) >>

UnsortedCourse == << Segment(20000, 42195, -100, 180, FALSE), Segment(0, 20000, 100, 0, TRUE) >>

SampleCourses ==
  ManualCourses \cup {get_ehime_marathon_default, <<>>, PointCourse, ShortStepsCourse,
                      OverlapCourse, UnsortedCourse}

SampleIntervals ==
  {1000, 1500, 2000, 2500, 3000, 4000, 5000, 7000, 8439, 10000, 14065, 20000, 42195, 50000}

Tracks ==
  { <<>>,
    << TrackPoint(0, 0), TrackPoint(3, 100) >>,
    << TrackPoint(0, 0), TrackPoint(0, 0) >>,
    << TrackPoint(0, 0), TrackPoint(40, 2000), TrackPoint(12, 6000) >>,
    << TrackPoint(0, 10000), TrackPoint(40000, 50000) >>,
    << TrackPoint(0, 10000), TrackPoint(20000, 50000), TrackPoint(43000, 20000) >> }

SmoothingWindows == {10, 120}

\* Short tracks given to parse_to_dataframe directly: three points 30 m apart
\* (12 resampled rows) over level, moderate and very steep ground, two points
\* 3 m apart, two coincident points and no point.
ShortTracks ==
  { << TrackPoint(0, a), TrackPoint(30, b), TrackPoint(60, c) >> :
      a \in {0, 4000, 30000}, b \in {0, 4000, 30000}, c \in {0, 4000, 30000} }
  \cup { <<>>, << TrackPoint(0, 0), TrackPoint(3, 100) >>,
         << TrackPoint(0, 0), TrackPoint(0, 0) >> }

\* Window lengths in metres: multiples of 5 and values between them.
WindowMeters == {0, 4, 5, 9, 10, 12, 15, 18, 20, 25, 30}

Strides == {8439, 10000}

BaseRequest ==
  [mass |-> 65, vdot |-> None, wind_speed_ms |-> 0, wind_dir_degrees |-> 0,
   hill_preference |-> 100, pacing_preference |-> "even", target_time_sec |-> 12600]

HillPreferences == {70, 75, 100, 130}

SplitPreferences == {"even", "positive", "negative"}

Requests ==
  { [BaseRequest EXCEPT !.hill_preference = h, !.pacing_preference = p] :
      h \in HillPreferences, p \in SplitPreferences }
  \cup { [BaseRequest EXCEPT !.wind_speed_ms = 500, !.wind_dir_degrees = d] : d \in {0, 180} }
  \cup { [BaseRequest EXCEPT !.target_time_sec = t, !.vdot = v] :
           t \in {None, 0, 14065}, v \in {None, 500} }

\* What the form of app.py can submit: weight fixed to 60 kg, vdot never
\* passed, target_time_sec None when the time string does not parse.
AppRequests ==
  { [BaseRequest EXCEPT !.mass = 60, !.target_time_sec = t, !.hill_preference = h] :
      t \in {None, 0, 12600}, h \in {100, 130} }

\* The inputs of the interleaved runs.
ParCourses == {GapCourse}

ParRequests ==
  { [BaseRequest EXCEPT !.hill_preference = 130, !.pacing_preference = p,
                        !.wind_speed_ms = 500] : p \in {"even", "negative"} }

ParStrides == {14065}

\* The inputs of the flat-course scenario.
FlatTargets == {3600, 4220, 8439, 12600, 14065, 421950, 500000}

FlatRequests == { [BaseRequest EXCEPT !.target_time_sec = t] : t \in FlatTargets }

FlatStrides == {1000}

\* The inputs of the runs that mix lookups with pace tables.
CoreCourses == {GapCourse, RollingCourse}

CoreRequests ==
  { BaseRequest,
    [BaseRequest EXCEPT !.hill_preference = 130, !.pacing_preference = "negative",
                        !.wind_speed_ms = 500] }

CoreStrides == {14065}

LookupPoints == {0, 5000, 20000, 45000}

\* The inputs of the direct calls of the physics functions.
SolveTargets ==
  {NaN, <<1, 0>>, <<-1, 0>>}
  \cup { <<t, 1>> : t \in {-100000, 0, 843750, 2000000, 25000000, 90000000,
                           322904000, 1000000000} }

SolveGradients == {-2000, -500, 0, 500, 2000}

SolveWinds == {-500, 0, 500}

Masses == {50, 65, 90}

BaselineSpeeds == {0, 5, 10, 11, 50, 334, 395, 700, 1000, 1200}

MinettiGradients == { 50 * k : k \in -40..42 } \cup {-1, 1}

DragSpeeds == {50, 100, 400, 1000}

\* Capability tables: an excerpt of the Daniels table in file order and
\* shuffled, a two-row table, a table whose times do not fall as VDOT rises,
\* and a table with a time that does not parse.
Hms(h, m, sec) == <<Num(h), Num(m), Num(sec)>>

DanielsTable ==
  << TableRow(300, Hms(4, 49, 17)), TableRow(450, Hms(3, 28, 26)),
     TableRow(600, Hms(2, 43, 25)), TableRow(850, Hms(2, 1, 39)) >>

ShuffledTable ==
  << TableRow(600, Hms(2, 43, 25)), TableRow(300, Hms(4, 49, 17)),
     TableRow(850, Hms(2, 1, 39)), TableRow(450, Hms(3, 28, 26)) >>

TwoRowTable == << TableRow(400, Hms(3, 49, 45)), TableRow(500, Hms(3, 10, 49)) >>

NonMonotoneTable ==
  << TableRow(300, Hms(5, 0, 0)), TableRow(310, Hms(5, 10, 0)),
     TableRow(320, Hms(4, 43, 20)) >>

UnparsedTimeTable ==
  << TableRow(300, Hms(4, 49, 17)), TableRow(450, <<NoNum>>),
     TableRow(600, Hms(2, 43, 25)) >>

Tables == {DanielsTable, ShuffledTable, TwoRowTable, NonMonotoneTable, UnparsedTimeTable}

\* The decimal VDOT values asked for, in tenths.
VdotInputs == {250, 300, 305, 315, 320, 400, 453, 500, 525, 600, 771, 850, 900}

\* The time strings given to the parsers: well-formed h:mm:ss and m:ss, and
\* malformed ones (empty, one part, four parts, a part that is no number).
TimeStrings ==
  { <<Num(h), Num(m), Num(sec)>> : h \in 0..5, m \in {0, 30, 59}, sec \in {0, 15, 59} }
  \cup { <<Num(m), Num(sec)>> : m \in {0, 3, 45, 210}, sec \in {0, 30, 59} }
  \cup { <<NoNum>>, <<Num(210)>>, <<Num(1), Num(2), Num(3), Num(4)>>,
         <<Num(3), NoNum, Num(0)>>, <<NoNum, Num(30)>>, <<NoNum, NoNum, NoNum>>,
         <<Num(3), Num(30), NoNum>> }

DragWinds == { 50 * k : k \in -20..30 }

\* Every whole hill preference of the documented range, and gradients up to the
\* clipping bound on both sides of flat.
HillRange == 70..130

HillGradients == {-GRAD_CLIP, -1000, -500, -100, 0, 100, 500, 1000, GRAD_CLIP}

\* ------------------------------------------------------------------- state
VARIABLES
  phase,            \* "new", "built", "failed", "ready", "stopped"
  course,           \* CourseData.segments
  built_by,         \* "none", "default", "manual", "track"
  track,            \* the raw track given to to_course_data (<<>> otherwise)
  window,           \* the smoothing_window_m given to to_course_data (0 otherwise)
  error,            \* "none" or the exception that ended the build
  request,          \* the arguments of the pacing request
  strategy,         \* the PacingStrategy object (its fields)
  caller,           \* "none", "core" or "app"
  found,            \* what the last get_segment_at_km returned (None before any)
  probe,            \* the last direct call of a pure function: [op, args, ret]
  ipc,              \* per invocation: "idle", "sampled", "profiled"
  stride,           \* per invocation: interval_meters
  df,               \* per invocation: the sampled rows
  final_multipliers,\* per invocation
  results,          \* per invocation: rows appended so far
  cumulative_time,  \* per invocation
  locals,           \* per invocation: the loop's locals of each pass so far
  calls,            \* per invocation: calls returned
  table,            \* per invocation: the table last returned
  prev_table        \* per invocation: the table returned before that

shared == <<phase, course, built_by, track, window, error, request, strategy, caller>>

inv_vars == <<ipc, stride, df, final_multipliers, results, cumulative_time, locals,
              calls, table, prev_table>>

vars == <<phase, course, built_by, track, window, error, request, strategy, caller, found, probe,
          ipc, stride, df, final_multipliers, results, cumulative_time, locals,
          calls, table, prev_table>>

Invs == 1..NumInv

NoRequest == [BaseRequest EXCEPT !.mass = 0]

NoStrategy == PacingStrategy(NoRequest)

NoProbe == [op |-> "none", args |-> <<>>, ret |-> <<>>]

Init ==
  /\ phase = "new"
  /\ course = <<>>
  /\ built_by = "none"
  /\ track = <<>>
  /\ window = 0
  /\ error = "none"
  /\ request = NoRequest
  /\ strategy = NoStrategy
  /\ caller = "none"
  /\ found = None
  /\ probe = NoProbe
  /\ ipc = [i \in Invs |-> "idle"]
  /\ stride = [i \in Invs |-> 0]
  /\ df = [i \in Invs |-> <<>>]
  /\ final_multipliers = [i \in Invs |-> <<>>]
  /\ results = [i \in Invs |-> <<>>]
  /\ cumulative_time = [i \in Invs |-> 0]
  /\ locals = [i \in Invs |-> <<>>]
  /\ calls = [i \in Invs |-> 0]
  /\ table = [i \in Invs |-> <<>>]
  /\ prev_table = [i \in Invs |-> <<>>]

\* ----------------------------------------------------------------- actions
\* CourseData.get_ehime_marathon_default().
BuildDefault ==
  /\ phase = "new"
  /\ course' = get_ehime_marathon_default
  /\ built_by' = "default"
  /\ phase' = "built"
  /\ UNCHANGED <<track, window, error, request, strategy, caller>>
  /\ UNCHANGED inv_vars
  /\ UNCHANGED <<found, probe>>

\* A caller fills CourseData().segments by hand.
BuildManual(c) ==
  /\ phase = "new"
  /\ course' = c
  /\ built_by' = "manual"
  /\ phase' = "built"
  /\ UNCHANGED <<track, window, error, request, strategy, caller>>
  /\ UNCHANGED inv_vars
  /\ UNCHANGED <<found, probe>>

\* GPXHandler.to_course_data(smoothing_window_m) on a parsed track.
BuildFromTrack(points, smoothing_window_m) ==
  /\ phase = "new"
  /\ LET r == to_course_data(points, smoothing_window_m)
     IN  /\ error' = r.error
         /\ course' = r.segments
         /\ phase' = IF r.error = "none" THEN "built" ELSE "failed"
  /\ built_by' = "track"
  /\ track' = points
  /\ window' = smoothing_window_m
  /\ UNCHANGED <<request, strategy, caller>>
  /\ UNCHANGED inv_vars
  /\ UNCHANGED <<found, probe>>

\* PacingStrategy(...) called directly with the arguments of req.
Construct(req) ==
  /\ phase = "built"
  /\ request' = req
  /\ strategy' = PacingStrategy(req)
  /\ caller' = "core"
  /\ phase' = "ready"
  /\ UNCHANGED <<course, built_by, track, window, error>>
  /\ UNCHANGED inv_vars
  /\ UNCHANGED <<found, probe>>

\* main() of app.py on submit, after the course is loaded: a target_time_sec
\* of None stops the run (st.error, st.stop); otherwise the strategy is built.
Submit(req) ==
  /\ phase = "built"
  /\ request' = req
  /\ caller' = "app"
  /\ IF req.target_time_sec = None
     THEN phase' = "stopped" /\ UNCHANGED strategy
     ELSE phase' = "ready" /\ strategy' = PacingStrategy(req)
  /\ UNCHANGED <<course, built_by, track, window, error>>
  /\ UNCHANGED inv_vars
  /\ UNCHANGED <<found, probe>>

\* generate_pace_table, line 40: sample the course.  A second call on the same
\* object is made with the same interval.
Call(i, interval_meters) ==
  /\ phase = "ready"
  /\ ipc[i] = "idle"
  /\ calls[i] < MaxCalls
  /\ calls[i] > 0 => interval_meters = stride[i]
  /\ stride' = [stride EXCEPT ![i] = interval_meters]
  /\ df' = [df EXCEPT ![i] = sample_at_interval_meters(course, interval_meters)]
  /\ ipc' = [ipc EXCEPT ![i] = "sampled"]
  /\ UNCHANGED <<final_multipliers, results, cumulative_time, locals, calls, table, prev_table>>
  /\ UNCHANGED shared
  /\ UNCHANGED <<found, probe>>

\* A variant of Profile that keeps the clock of the previous call.
ProfileKeepsClock(i) ==
  /\ ipc[i] = "sampled"
  /\ Len(df[i]) > 0
  /\ final_multipliers' = [final_multipliers EXCEPT ![i] = FinalMultipliers(strategy, df[i])]
  /\ results' = [results EXCEPT ![i] = <<>>]
  /\ locals' = [locals EXCEPT ![i] = <<>>]
  /\ ipc' = [ipc EXCEPT ![i] = "profiled"]
  /\ UNCHANGED <<stride, df, cumulative_time, calls, table, prev_table>>
  /\ UNCHANGED shared
  /\ UNCHANGED <<found, probe>>

\* Lines 47-91: the power profile and its normalisation, then results = []
\* and cumulative_time = 0.0.
Profile(i) ==
  /\ ipc[i] = "sampled"
  /\ Len(df[i]) > 0
  /\ final_multipliers' = [final_multipliers EXCEPT ![i] = FinalMultipliers(strategy, df[i])]
  /\ results' = [results EXCEPT ![i] = <<>>]
  /\ cumulative_time' = [cumulative_time EXCEPT ![i] = 0]
  /\ locals' = [locals EXCEPT ![i] = <<>>]
  /\ ipc' = [ipc EXCEPT ![i] = "profiled"]
  /\ UNCHANGED <<stride, df, calls, table, prev_table>>
  /\ UNCHANGED shared
  /\ UNCHANGED <<found, probe>>

\* A variant of Row that stores the pass's power on the strategy object.
RowStoresPower(i) ==
  /\ ipc[i] = "profiled"
  /\ Len(results[i]) < Len(df[i])
  /\ LET k == Len(results[i]) + 1
         r == PaceRow(strategy, df[i][k], final_multipliers[i][k], stride[i],
                      cumulative_time[i])
     IN  /\ results' = [results EXCEPT ![i] = Append(@, r.out)]
         /\ locals' = [locals EXCEPT ![i] = Append(@, r.locals)]
         /\ cumulative_time' = [cumulative_time EXCEPT ![i] = r.out.cumulative_time_sec]
         /\ strategy' = [strategy EXCEPT !.target_power = r.locals.segment_power[1]]
  /\ UNCHANGED <<ipc, stride, df, final_multipliers, calls, table, prev_table>>
  /\ UNCHANGED <<phase, course, built_by, track, window, error, request, caller, found, probe>>

\* A variant of Row that keeps one clock for all invocations.
RowSharedClock(i) ==
  /\ ipc[i] = "profiled"
  /\ Len(results[i]) < Len(df[i])
  /\ LET k == Len(results[i]) + 1
         r == PaceRow(strategy, df[i][k], final_multipliers[i][k], stride[i],
                      cumulative_time[i])
     IN  /\ results' = [results EXCEPT ![i] = Append(@, r.out)]
         /\ locals' = [locals EXCEPT ![i] = Append(@, r.locals)]
         /\ cumulative_time' = [j \in Invs |-> r.out.cumulative_time_sec]
  /\ UNCHANGED <<ipc, stride, df, final_multipliers, calls, table, prev_table>>
  /\ UNCHANGED shared
  /\ UNCHANGED <<found, probe>>

\* A variant of Row that never adds the pass's time to the clock.
RowKeepsClock(i) ==
  /\ ipc[i] = "profiled"
  /\ Len(results[i]) < Len(df[i])
  /\ LET k == Len(results[i]) + 1
         r == PaceRow(strategy, df[i][k], final_multipliers[i][k], stride[i],
                      cumulative_time[i])
     IN  /\ results' = [results EXCEPT ![i] = Append(@, r.out)]
         /\ locals' = [locals EXCEPT ![i] = Append(@, r.locals)]
  /\ UNCHANGED <<ipc, stride, df, final_multipliers, cumulative_time, calls, table, prev_table>>
  /\ UNCHANGED shared
  /\ UNCHANGED <<found, probe>>

\* Lines 93-132: one pass of the simulation loop.
Row(i) ==
  /\ ipc[i] = "profiled"
  /\ Len(results[i]) < Len(df[i])
  /\ LET k == Len(results[i]) + 1
         r == PaceRow(strategy, df[i][k], final_multipliers[i][k], stride[i],
                      cumulative_time[i])
     IN  /\ results' = [results EXCEPT ![i] = Append(@, r.out)]
         /\ locals' = [locals EXCEPT ![i] = Append(@, r.locals)]
         /\ cumulative_time' = [cumulative_time EXCEPT ![i] = r.out.cumulative_time_sec]
  /\ UNCHANGED <<ipc, stride, df, final_multipliers, calls, table, prev_table>>
  /\ UNCHANGED shared
  /\ UNCHANGED <<found, probe>>

\* Line 134 (or line 43 on an empty sample): return the table.
Return(i) ==
  /\ \/ ipc[i] = "profiled" /\ Len(results[i]) = Len(df[i])
     \/ ipc[i] = "sampled" /\ Len(df[i]) = 0
  /\ table' = [table EXCEPT ![i] = IF Len(df[i]) = 0 THEN <<>> ELSE results[i]]
  /\ prev_table' = [prev_table EXCEPT ![i] = table[i]]
  /\ calls' = [calls EXCEPT ![i] = @ + 1]
  /\ ipc' = [ipc EXCEPT ![i] = "idle"]
  /\ UNCHANGED <<stride, df, final_multipliers, results, cumulative_time, locals>>
  /\ UNCHANGED shared
  /\ UNCHANGED <<found, probe>>

\* get_segment_at_km(current_km) on the built course; 0 stands for the
\* Python None the method returns when no segment is found.
Lookup(current_km) ==
  /\ phase \in {"built", "ready"}
  /\ found' = get_segment_at_km(course, current_km)
  /\ UNCHANGED probe
  /\ UNCHANGED shared
  /\ UNCHANGED inv_vars

\* RunningPhysics.solve_speed_for_power called directly (one direct call of a
\* pure function per run: its result does not depend on earlier calls).
Solve(target_power, gradient, wind_speed, mass) ==
  /\ probe = NoProbe
  /\ probe' = [op |-> "solve_speed_for_power",
                args |-> <<target_power, gradient, wind_speed, mass>>,
                ret |-> solve_speed_for_power(target_power, gradient, wind_speed, mass)]
  /\ UNCHANGED <<shared, inv_vars, found>>

\* test_solve_speed_limitations with a baseline speed and a mass: the power
\* of the baseline on flat calm ground, then the speed solved for it on a 5 %
\* uphill and on flat ground into a 5 m/s headwind.
Baseline(base_speed, mass) ==
  /\ probe = NoProbe
  /\ LET base_power == calculate_total_power(base_speed, 0, 0, mass)
     IN  probe' = [op |-> "test_solve_speed_limitations",
                   args |-> <<base_speed, mass>>,
                   ret |-> [base_power |-> base_power,
                            uphill_speed |->
                              solve_speed_for_power(<<base_power, 1>>, 500, 0, mass),
                            headwind_speed |->
                              solve_speed_for_power(<<base_power, 1>>, 0, -500, mass)]]
  /\ UNCHANGED <<shared, inv_vars, found>>

\* RunningPhysics.minetti_cost_j_kg_m called directly.
Minetti(gradient_decimal) ==
  /\ probe = NoProbe
  /\ probe' = [op |-> "minetti_cost_j_kg_m", args |-> <<gradient_decimal>>,
                ret |-> minetti_cost_j_kg_m(gradient_decimal)]
  /\ UNCHANGED <<shared, inv_vars, found>>

\* RunningPhysics.calculate_drag_power_watts called directly with the default
\* frontal area, once with the wind and once in calm air at the same ground
\* speed, as test_drag_force_direction() does.
Drag(velocity, wind_velocity_parallel) ==
  /\ probe = NoProbe
  /\ probe' = [op |-> "calculate_drag_power_watts",
                args |-> <<velocity, wind_velocity_parallel>>,
                ret |-> [power |-> calculate_drag_power_watts(
                                     velocity, wind_velocity_parallel, FRONTAL_AREA),
                         power_calm |-> calculate_drag_power_watts(
                                     velocity, 0, FRONTAL_AREA)]]
  /\ UNCHANGED <<shared, inv_vars, found>>

\* VDOTHandler._time_str_to_seconds called on a time string.
ParseTime(parts) ==
  /\ probe = NoProbe
  /\ probe' = [op |-> "_time_str_to_seconds", args |-> <<parts>>,
                ret |-> time_str_to_seconds(parts)]
  /\ UNCHANGED <<shared, inv_vars, found>>

\* The form of main() given a target-time string.
FormTime(parts) ==
  /\ probe = NoProbe
  /\ probe' = [op |-> "main", args |-> <<parts>>, ret |-> form_target_time_sec(parts)]
  /\ UNCHANGED <<shared, inv_vars, found>>

\* The decimal VDOT turned into a time and the time turned back into a VDOT,
\* as the two modes of the form do.
RoundTrip(vdot_df, vdot_float) ==
  /\ probe = NoProbe
  /\ LET exact_sec == get_time_for_exact_vdot(vdot_df, <<vdot_float, 1>>)
     IN  probe' = [op |-> "get_exact_vdot_from_time", args |-> <<vdot_df, vdot_float>>,
                   ret |-> [exact_sec |-> exact_sec,
                            vdot |-> get_exact_vdot_from_time(vdot_df, exact_sec)]]
  /\ UNCHANGED <<shared, inv_vars, found>>

\* The hill factor generate_pace_table computes for one sample of the given
\* gradient, and the one for the mirrored gradient.
Hill(hill_preference, gradient) ==
  /\ probe = NoProbe
  /\ probe' = [op |-> "hill_factors", args |-> <<hill_preference, gradient>>,
                ret |-> [factor |-> HillFactor(hill_preference, gradient),
                         mirrored |-> HillFactor(hill_preference, -gradient)]]
  /\ UNCHANGED <<shared, inv_vars, found>>

\* CourseData.sample_at_interval_meters called directly: the sampled points,
\* the cursor after each pass, and what the linear search get_segment_at_km
\* returns for each sampled distance.
Sample(segments, interval_m) ==
  /\ probe = NoProbe
  /\ LET points == sample_at_interval_meters(segments, interval_m)
     IN  probe' = [op |-> "sample_at_interval_meters", args |-> <<segments, interval_m>>,
                   ret |-> [points |-> points,
                            seg_idx |-> sample_cursor(segments, interval_m),
                            linear |-> [k \in 1..Len(points) |->
                                          get_segment_at_km(segments, points[k].km)]]]
  /\ UNCHANGED <<shared, inv_vars, found>>

\* GPXHandler.parse_to_dataframe called directly: the window length in
\* samples, and per resampled row the clipped gradient and the gradient after
\* the second smoothing (no rows when the call raises or the track is empty).
Resample(points, window_meters) ==
  /\ probe = NoProbe
  /\ LET p == parse_to_dataframe(points, window_meters)
         n == IF p.error = "none" THEN p.rows ELSE 0
     IN  probe' = [op |-> "parse_to_dataframe", args |-> <<points, window_meters>>,
                   ret |-> [error |-> p.error, rows |-> n,
                            window_size |-> p.window_size,
                            clipped |-> [k \in 1..n |-> DfGradientClipped(p, k)],
                            gradient |-> [k \in 1..n |-> DfGradient(p, k)]]]
  /\ UNCHANGED <<shared, inv_vars, found>>

\* One strategy object used by one caller at a time.
Next ==
  \/ BuildDefault
  \/ \E c \in ManualCourses : BuildManual(c)
  \/ \E t \in Tracks, w \in SmoothingWindows : BuildFromTrack(t, w)
  \/ \E req \in Requests : Construct(req)
  \/ \E req \in AppRequests : Submit(req)
  \/ \E s \in Strides : Call(1, s)
  \/ Profile(1)
  \/ Row(1)
  \/ Return(1)

Spec == Init /\ [][Next]_vars

\* Several invocations in flight on one shared course and strategy.
NextPar ==
  \/ \E c \in ParCourses : BuildManual(c)
  \/ \E req \in ParRequests : Construct(req)
  \/ \E i \in Invs, s \in ParStrides : Call(i, s)
  \/ \E i \in Invs : Profile(i)
  \/ \E i \in Invs : Row(i)
  \/ \E i \in Invs : Return(i)

SpecPar == Init /\ [][NextPar]_vars

\* The flat, wind-free scenario sampled every 1000 m.
NextFlat ==
  \/ BuildManual(FlatCourse)
  \/ \E req \in FlatRequests : Construct(req)
  \/ \E s \in FlatStrides : Call(1, s)
  \/ Profile(1)
  \/ Row(1)
  \/ Return(1)

SpecFlat == Init /\ [][NextFlat]_vars

\* The core operations on a built course in any order.
NextCore ==
  \/ BuildDefault
  \/ \E c \in CoreCourses : BuildManual(c)
  \/ \E req \in CoreRequests : Construct(req)
  \/ \E d \in LookupPoints : Lookup(d)
  \/ \E s \in CoreStrides : Call(1, s)
  \/ Profile(1)
  \/ Row(1)
  \/ Return(1)

SpecCore == Init /\ [][NextCore]_vars

\* The physics functions called directly, in any order.
NextPhysics ==
  \/ \E t \in SolveTargets, g \in SolveGradients, w \in SolveWinds, m \in Masses :
       Solve(t, g, w, m)
  \/ \E v \in BaselineSpeeds, m \in Masses : Baseline(v, m)
  \/ \E g \in MinettiGradients : Minetti(g)
  \/ \E v \in DragSpeeds, w \in DragWinds : Drag(v, w)

SpecPhysics == Init /\ [][NextPhysics]_vars

\* The capability table and the time parsers called directly.
NextTable ==
  \/ \E parts \in TimeStrings : ParseTime(parts)
  \/ \E parts \in TimeStrings : FormTime(parts)
  \/ \E t \in Tables, x \in VdotInputs : RoundTrip(t, x)

SpecTable == Init /\ [][NextTable]_vars

\* The hill factor of one sample, for every preference and gradient.
NextHill ==
  \E p \in HillRange, g \in HillGradients : Hill(p, g)

SpecHill == Init /\ [][NextHill]_vars

\* The sampler called directly on any course with any interval.
NextSample ==
  \E c \in SampleCourses, s \in SampleIntervals : Sample(c, s)

SpecSample == Init /\ [][NextSample]_vars

\* The track resampler called directly on short tracks.
NextTrack ==
  \E t \in ShortTracks, w \in WindowMeters : Resample(t, w)

SpecTrack == Init /\ [][NextTrack]_vars

\* -------------------------------------------------------------- properties
\* Some segment of the course contains the distance d.
Covered(segments, d) ==
  \E k \in 1..Len(segments) : segments[k].start_km <= d /\ d < segments[k].end_km

\* The distance the sampler walks: the canonical length or the last end.
SampledLength(segments) ==
  IF Len(segments) > 0 THEN Max(CANONICAL_M, segments[Len(segments)].end_km)
  ELSE CANONICAL_M

\* Every grid distance 0, s, 2s, ... up to the sampled length has its row.
NothingSkipped(i) ==
  /\ Len(df[i]) = (SampledLength(course) \div stride[i]) + 1
  /\ \A k \in 1..Len(df[i]) : df[i][k].km = (k - 1) * stride[i]

\* C1: once the power profile of a call is computed, every normalized
\* multiplier is a finite number and their arithmetic mean is exactly 1 (their
\* sum equals their count).
C1_MeanIsOne ==
  \A i \in Invs :
    ipc[i] = "profiled" =>
      /\ \A k \in 1..Len(final_multipliers[i]) : IsFinite(final_multipliers[i][k])
      /\ RSum(final_multipliers[i], 1) = <<Len(final_multipliers[i]), 1>>

\* C2 as stated: no grid distance is skipped, and every sampled distance that
\* no segment covers - before the first segment, between two segments or after
\* the last one - has gradient 0 and wind_exposed false.
C2_EveryHoleIsFlat ==
  \A i \in Invs :
    stride[i] > 0 =>
      /\ NothingSkipped(i)
      /\ \A k \in 1..Len(df[i]) :
           ~Covered(course, df[i][k].km) =>
             df[i][k].gradient = 0 /\ df[i][k].wind_exposed = FALSE

\* C2 amended: no grid distance is skipped; an uncovered distance before the
\* end of the last segment (or any distance of a course without segments) is
\* the flat, unexposed fallback sample; an uncovered distance at or beyond the
\* end of the last segment carries the last segment's gradient, bearing and
\* exposure.
C2_HolesBeforeLastEndAreFlat ==
  \A i \in Invs :
    stride[i] > 0 =>
      /\ NothingSkipped(i)
      /\ \A k \in 1..Len(df[i]) :
           LET row == df[i][k]
               n == Len(course)
           IN  ~Covered(course, row.km) =>
                 IF n = 0 \/ row.km < course[n].end_km
                 THEN row.gradient = 0 /\ row.wind_exposed = FALSE /\ row.bearing = 0
                 ELSE /\ row.gradient = course[n].gradient
                      /\ row.wind_exposed = course[n].is_exposed_to_wind
                      /\ row.bearing = course[n].bearing_degrees

\* A sampled course with a hole before its first segment, a hole between two
\* segments and sampled distances beyond its last segment, which slopes.
C2_Witness ==
  /\ stride[1] > 0
  /\ Len(course) >= 2
  /\ course[Len(course)].gradient # 0
  /\ \E k \in 1..Len(df[1]) :
       df[1][k].km < course[1].start_km /\ df[1][k].gradient = 0
  /\ \E k \in 1..Len(df[1]) :
       /\ ~Covered(course, df[1][k].km)
       /\ course[1].end_km <= df[1][k].km
       /\ df[1][k].km < course[Len(course)].start_km
       /\ df[1][k].wind_exposed = FALSE
  /\ \E k \in 1..Len(df[1]) :
       /\ df[1][k].km >= course[Len(course)].end_km
       /\ df[1][k].gradient = course[Len(course)].gradient

\* The pass k of invocation i ran under a 5 m/s wind from 0 degrees on a
\* wind-exposed sample of bearing 180.
WindFromNorthOnSouthbound(i, k) ==
  /\ strategy.wind_speed_ms = 500
  /\ strategy.wind_dir_degrees = 0
  /\ locals[i][k].wind_exposed
  /\ locals[i][k].bearing = 180

\* The speed solved for pass k had the sample not been exposed to wind.
CalmSpeed(i, k) ==
  solve_speed_for_power(locals[i][k].segment_power, locals[i][k].calc_gradient, 0,
                        strategy.mass)

C4_MissingTargetEndsRun ==
  (request # NoRequest /\ request.target_time_sec = None /\ request.vdot = None) =>
    /\ phase # "ready"
    /\ \A i \in Invs : ipc[i] = "idle" /\ calls[i] = 0

\* Invocation i runs the flat scenario: flat unexposed 42.195 km, sampled every
\* 1000 m, positive target time, even split, hill preference 100.
FlatScenario(i) ==
  /\ course = FlatCourse
  /\ stride[i] = 1000
  /\ ipc[i] = "profiled"
  /\ request.target_time_sec > 0
  /\ request.pacing_preference = "even"
  /\ request.hill_preference = 100

\* Every multiplier is 1 and every speed solved so far is 42195 / T.
FlatTableIsUniform(i) ==
  /\ \A k \in 1..Len(final_multipliers[i]) : final_multipliers[i][k] = <<1, 1>>
  /\ \A k \in 1..Len(results[i]) :
       results[i][k].speed_ms = (CANONICAL_M * 100) \div request.target_time_sec

\* C5 as stated: in the flat scenario with any target time T > 0 every
\* multiplier is exactly 1 and every sample's speed equals 42195 / T.
C5_FlatEvenAnyTarget ==
  \A i \in Invs : FlatScenario(i) => FlatTableIsUniform(i)

\* C5 amended: in the flat scenario with a target time T for which 42195 / T
\* lies within the solver's bracket of 0.1 to 10 m/s, every multiplier is
\* exactly 1 and every sample's speed equals 42195 / T.
C5_FlatEvenWithinBracket ==
  \A i \in Invs :
    (/\ FlatScenario(i)
     /\ SPEED_MIN <= (CANONICAL_M * 100) \div request.target_time_sec
     /\ (CANONICAL_M * 100) \div request.target_time_sec <= SPEED_MAX)
      => FlatTableIsUniform(i)

\* The 3:30:00 flat table is complete: 43 rows, the last solved at 42195 / T.
C5_Witness ==
  /\ FlatScenario(1)
  /\ request.target_time_sec = 12600
  /\ Len(results[1]) = 43
  /\ results[1][43].speed_ms = 334
  /\ final_multipliers[1][43] = <<1, 1>>

\* C6: a track whose raw length exceeds 40000 m yields a course whose last
\* segment ends at exactly 42195 m; a track of at most 40000 m is not rescaled.
C6_RescaledCourseEndsAtCanonical ==
  built_by = "track" =>
    LET p == parse_to_dataframe(track, window)
    IN  /\ p.total_raw_dist > RESCALE_THRESHOLD_M =>
             /\ error = "none"
             /\ Len(course) > 0
             /\ course[Len(course)].end_km = CANONICAL_M
        /\ p.total_raw_dist <= RESCALE_THRESHOLD_M => p.scale_factor = <<1, 1>>

\* C7: every course the default builder or the track builder produces (from a
\* track that resamples to at least two rows) has a first segment starting at
\* 0, segments that start before they end, and each segment ending where the
\* next one starts.
C7_BuiltCourseIsContiguous ==
  (\/ built_by = "default"
   \/ built_by = "track" /\ parse_to_dataframe(track, window).rows >= 2) =>
    /\ error = "none"
    /\ Len(course) > 0
    /\ course[1].start_km = 0
    /\ \A k \in 1..Len(course) : course[k].start_km < course[k].end_km
    /\ \A k \in 1..(Len(course) - 1) : course[k].end_km = course[k + 1].start_km

\* C8: for every track that resamples to at least two rows, to_course_data
\* succeeds and emits one segment per row, 5 m wide, carrying the row's
\* bearing and the label of its start.
C8_OneSegmentPerSample ==
  (built_by = "track" /\ parse_to_dataframe(track, window).rows >= 2) =>
    LET p == parse_to_dataframe(track, window)
    IN  /\ error = "none"
        /\ Len(course) = p.rows
        /\ \A k \in 1..Len(course) :
             /\ course[k].start_km = GRID_M * (k - 1)
             /\ course[k].end_km = course[k].start_km + GRID_M
             /\ course[k].bearing_degrees = DfBearing(p, k)
             /\ course[k].description = Description(course[k].start_km)

\* C9: a second call of generate_pace_table on the same strategy object, with
\* the same course and interval, returns the table the first call returned.
C9_RepeatedCallSameTable ==
  \A i \in Invs : calls[i] >= 2 => table[i] = prev_table[i]

\* Two calls have returned a table of several rows with a running clock.
C9_Witness ==
  /\ calls[1] = 2
  /\ Len(table[1]) >= 5
  /\ table[1][Len(table[1])].cumulative_time_sec > table[1][1].cumulative_time_sec
  /\ prev_table[1] # <<>>

\* What belongs to invocation i alone.
InvState(i) ==
  <<ipc[i], stride[i], df[i], final_multipliers[i], results[i], cumulative_time[i],
    locals[i], calls[i], table[i], prev_table[i]>>

C11_CourseAndStrategyFrozen ==
  [][/\ phase \in {"built", "ready"} => course' = course
     /\ phase = "ready" => strategy' = strategy]_vars

\* A lookup has returned a segment and two pace tables were generated on a
\* course with sloping, exposed segments under a strategy with wind.
C11_Witness ==
  /\ phase = "ready"
  /\ found > 0
  /\ calls[1] = 2
  /\ Len(table[1]) > 1
  /\ strategy.wind_speed_ms > 0
  /\ \E k \in 1..Len(course) : course[k].gradient # 0 /\ course[k].is_exposed_to_wind

\* C12: solve_speed_for_power always returns a value, and that value is 0, 0.1
\* or a speed in [0.1, 10] at which the required power meets the target (on
\* the speed grid: the power at the result does not exceed the target and the
\* power one step above does).  It is 0.1 whenever the power required at
\* 0.1 m/s exceeds the target, and 0 exactly when the search fails otherwise:
\* the target exceeds the power at 10 m/s or is not a number.
C12_SolverResult ==
  probe.op = "solve_speed_for_power" =>
    LET target == probe.args[1]
        g == probe.args[2]
        w == probe.args[3]
        m == probe.args[4]
        r == probe.ret
        p_min == calculate_total_power(SPEED_MIN, g, w, m)
        p_max == calculate_total_power(SPEED_MAX, g, w, m)
    IN  /\ r = 0 \/ (SPEED_MIN <= r /\ r <= SPEED_MAX)
        /\ IF ~IsFinite(target)
           THEN r = (IF target = <<-1, 0>> THEN SPEED_MIN ELSE 0)
           ELSE /\ p_min > target[1] => r = SPEED_MIN
                /\ (p_min <= target[1] /\ p_max < target[1]) => r = 0
                /\ (p_min <= target[1] /\ target[1] <= p_max) =>
                     /\ r >= SPEED_MIN
                     /\ calculate_total_power(r, g, w, m) <= target[1]
                     /\ r = SPEED_MAX \/ target[1] < calculate_total_power(r + 1, g, w, m)
                /\ r = 0 => p_max < target[1]

\* The solver found a root strictly inside the bracket on a slope with wind.
C12_Witness ==
  /\ probe.op = "solve_speed_for_power"
  /\ probe.args[2] # 0 /\ probe.args[3] # 0
  /\ probe.ret > SPEED_MIN /\ probe.ret < SPEED_MAX

\* The sum of the segment times of the first k rows.
RECURSIVE TimeSum(_, _)
TimeSum(rows, k) == IF k = 0 THEN 0 ELSE TimeSum(rows, k - 1) + rows[k].time_sec

\* C13: in every pace table row the segment time is interval_meters / speed
\* when the solved speed is above 0.1 m/s and the sentinel 9999 s when the
\* solved speed is 0.1 m/s or less (0 or the crawl clamp), and the cumulative
\* time of every row is the finite sum of the segment times so far.
C13_StalledRowsTakeSentinel ==
  \A i \in Invs : \A k \in 1..Len(results[i]) :
    LET row == results[i][k]
    IN  /\ row.speed_ms > SPEED_MIN =>
             row.time_sec = (stride[i] * 100000) \div row.speed_ms
        /\ row.speed_ms <= SPEED_MIN => row.time_sec = STALL_TIME_MS
        /\ row.cumulative_time_sec = TimeSum(results[i], k)

\* A returned table holds a row clamped to 0.1 m/s, which took the sentinel,
\* and a moving row.
C13_Witness ==
  /\ calls[1] >= 1
  /\ \E k \in 1..Len(table[1]) :
       table[1][k].speed_ms = SPEED_MIN /\ table[1][k].time_sec = STALL_TIME_MS
  /\ \E k \in 1..Len(table[1]) :
       table[1][k].speed_ms > SPEED_MIN /\ table[1][k].time_sec < STALL_TIME_MS
  /\ table[1][Len(table[1])].cumulative_time_sec > STALL_TIME_MS

\* A returned table whose rows all failed to solve (speed 0).
C13_WitnessAllFailed ==
  /\ calls[1] >= 1
  /\ Len(table[1]) > 1
  /\ \A k \in 1..Len(table[1]) : table[1][k].speed_ms = 0
  /\ table[1][Len(table[1])].cumulative_time_sec = Len(table[1]) * STALL_TIME_MS

\* The seconds of a well-formed h:mm:ss or m:ss string, 0 for every other.
SecondsOrZero(parts) ==
  IF Len(parts) = 3 /\ AllNumeric(parts)
  THEN parts[1].value * 3600 + parts[2].value * 60 + parts[3].value
  ELSE IF Len(parts) = 2 /\ AllNumeric(parts)
  THEN parts[1].value * 60 + parts[2].value
  ELSE 0

\* C14 as stated: wherever a target-time string is parsed - in
\* _time_str_to_seconds and in the form of main() - h:mm:ss yields
\* h*3600 + mm*60 + ss, m:ss yields m*60 + ss and every other input yields 0.
C14_EveryParserAgrees ==
  probe.op \in {"_time_str_to_seconds", "main"} =>
    probe.ret = SecondsOrZero(probe.args[1])

\* C14 amended: _time_str_to_seconds yields h*3600 + mm*60 + ss for h:mm:ss,
\* m*60 + ss for m:ss and 0 for every other input; the form of main() yields
\* h*3600 + mm*60 + ss for three numeric parts, reads two numeric parts as
\* h:mm (h*3600 + mm*60) and yields None for every other input.
C14_ParsersByPlace ==
  LET parts == probe.args[1]
  IN  /\ probe.op = "_time_str_to_seconds" => probe.ret = SecondsOrZero(parts)
      /\ probe.op = "main" =>
           probe.ret =
             (IF Len(parts) = 3 /\ AllNumeric(parts)
              THEN parts[1].value * 3600 + parts[2].value * 60 + parts[3].value
              ELSE IF Len(parts) = 2 /\ AllNumeric(parts)
              THEN parts[1].value * 3600 + parts[2].value * 60
              ELSE None)

\* _time_str_to_seconds has parsed the m:ss string 45:30 to 2730 s.
C14_Witness ==
  /\ probe.op = "_time_str_to_seconds"
  /\ probe.args[1] = <<Num(45), Num(30)>>
  /\ probe.ret = 2730

\* The table has at least two rows with unique VDOT values, and x lies within
\* the range of its VDOT values.
InsideTable(vdot_df, x) ==
  /\ Len(vdot_df) >= 2
  /\ \A j, k \in 1..Len(vdot_df) : j # k => vdot_df[j].VDOT # vdot_df[k].VDOT
  /\ \E k \in 1..Len(vdot_df) : vdot_df[k].VDOT <= x
  /\ \E k \in 1..Len(vdot_df) : x <= vdot_df[k].VDOT

\* The parsed time strictly falls as VDOT rises.
TimeFallsWithVdot(vdot_df) ==
  \A j, k \in 1..Len(vdot_df) :
    vdot_df[j].VDOT < vdot_df[k].VDOT =>
      time_str_to_seconds(vdot_df[j].Marathon) > time_str_to_seconds(vdot_df[k].Marathon)

\* C15 as stated: for every table with at least two rows and unique VDOT
\* values and every x within its VDOT range,
\* get_exact_vdot_from_time(get_time_for_exact_vdot(x)) equals x.
C15_RoundTripAnyTable ==
  (probe.op = "get_exact_vdot_from_time" /\ InsideTable(probe.args[1], probe.args[2])) =>
    probe.ret.vdot = <<probe.args[2], 1>>

\* C15 amended: the round trip returns x for every table with at least two
\* rows and unique VDOT values whose parsed times strictly fall as VDOT rises,
\* and every x within its VDOT range.
C15_RoundTripMonotoneTable ==
  (/\ probe.op = "get_exact_vdot_from_time"
   /\ InsideTable(probe.args[1], probe.args[2])
   /\ TimeFallsWithVdot(probe.args[1])) =>
    probe.ret.vdot = <<probe.args[2], 1>>

\* A VDOT strictly between two rows of a shuffled table went through a time
\* that is no whole number of seconds and came back.
C15_Witness ==
  /\ probe.op = "get_exact_vdot_from_time"
  /\ probe.args[1] = ShuffledTable
  /\ probe.args[2] = 453
  /\ probe.ret.exact_sec[2] # 1
  /\ probe.ret.vdot = <<453, 1>>

\* The runs of test_solve_speed_limitations() recorded by Baseline.
IsBaseline == probe.op = "test_solve_speed_limitations"

BothSlower ==
  /\ probe.ret.uphill_speed < probe.args[1]
  /\ probe.ret.headwind_speed < probe.args[1]

\* C16 as stated: for every baseline speed v and mass m, the speed solved for
\* the flat calm power of v on a 5% uphill, and the one solved for it against a
\* 5 m/s headwind, are each strictly less than v.
C16_SlowerAtEveryBaseline == IsBaseline => BothSlower

\* C16 amended: the same for every baseline speed above the solver's lower
\* bound of 0.1 m/s.
C16_SlowerAboveFloor ==
  (IsBaseline /\ probe.args[1] > SPEED_MIN) => BothSlower

\* The test's own case: VDOT 50, about 3.95 m/s, 65 kg; both solved speeds are
\* roots inside the search range.
C16_Witness ==
  /\ IsBaseline
  /\ probe.args = <<395, 65>>
  /\ probe.ret.uphill_speed > SPEED_MIN
  /\ probe.ret.headwind_speed > SPEED_MIN
  /\ BothSlower

\* C17: minetti_cost_j_kg_m returns exactly 3.6 J/kg/m at gradient 0, at least
\* that flat cost at every gradient above 0, and strictly less at every
\* moderate descent (down to the clipping bound of -20%, -5% included).
C17_MinettiAroundFlat ==
  probe.op = "minetti_cost_j_kg_m" =>
    LET i == probe.args[1]
    IN  /\ i = 0 => probe.ret = FLAT_COST
        /\ i > 0 => probe.ret >= FLAT_COST
        /\ (i < 0 /\ i >= -GRAD_CLIP) => probe.ret < FLAT_COST

\* The test's descent of -5%: a positive cost below the flat one.
C17_Witness ==
  /\ probe.op = "minetti_cost_j_kg_m"
  /\ probe.args = <<-500>>
  /\ probe.ret > 0
  /\ probe.ret < FLAT_COST

\* C18: at every ground speed v > 0 a headwind of any magnitude w > 0 costs
\* strictly more drag power than calm air, and the drag power is negative
\* exactly when the parallel tailwind exceeds the ground speed.
C18_HeadwindCostsTailwindAssists ==
  (probe.op = "calculate_drag_power_watts" /\ probe.args[1] > 0) =>
    LET v == probe.args[1]
        wind == probe.args[2]
    IN  /\ wind < 0 => probe.ret.power > probe.ret.power_calm
        /\ probe.ret.power < 0 <=> wind > v

\* 4 m/s with a 6 m/s tailwind: the air pushes the runner.
C18_Witness ==
  /\ probe.op = "calculate_drag_power_watts"
  /\ probe.args = <<400, 600>>
  /\ probe.ret.power < 0
  /\ probe.ret.power_calm > 0

\* The test's case, 4 m/s into a 2 m/s headwind.
C18_WitnessHeadwind ==
  /\ probe.op = "calculate_drag_power_watts"
  /\ probe.args = <<400, -200>>
  /\ probe.ret.power > probe.ret.power_calm

\* C19: for every hill_preference p in 70..130 the hill factor 1 + gradient * K
\* is p/100 at a gradient of 5% and 1 at gradient 0, the factors of a gradient
\* and of its mirror image add up to 2, and with p = 130 a 5% climb has the
\* factor 1.3, above the flat samples' 1.
C19_HillFactorAtReference ==
  probe.op = "hill_factors" =>
    LET p == probe.args[1]
        gradient == probe.args[2]
    IN  /\ gradient = 500 => probe.ret.factor = Rat(p, 100)
        /\ gradient = 0 => probe.ret.factor = <<1, 1>>
        /\ RAdd(probe.ret.factor, probe.ret.mirrored) = <<2, 1>>
        /\ (p = 130 /\ gradient = 500) =>
             /\ probe.ret.factor = <<13, 10>>
             /\ ~RLeq(probe.ret.factor, <<1, 1>>)

\* Preference 130 on a 5% climb: factor 13/10, and 7/10 on the mirrored descent.
C19_Witness ==
  /\ probe.op = "hill_factors"
  /\ probe.args = <<130, 500>>
  /\ probe.ret.factor = <<13, 10>>
  /\ probe.ret.mirrored = <<7, 10>>

\* C20: for every track (two or more points, shorter than one grid step,
\* coincident points, or no point at all) the course is built without an
\* exception, and a run on it is aborted only for a missing target.
C20_EveryTrackBuildsAndRuns ==
  built_by = "track" =>
    /\ error = "none"
    /\ phase # "failed"
    /\ phase = "stopped" => request.target_time_sec = None

\* The segments are in order of distance and do not overlap.
SortedDisjoint(segments) ==
  /\ \A k \in 1..Len(segments) : segments[k].start_km <= segments[k].end_km
  /\ \A k \in 1..(Len(segments) - 1) : segments[k].end_km <= segments[k + 1].start_km

IsSample == probe.op = "sample_at_interval_meters"

\* C21: on a course whose segments are sorted and do not overlap, every
\* sampled distance d that a segment contains (start <= d < end) carries that
\* segment's attributes, every sample is what the linear search
\* get_segment_at_km(d) gives (the fallback point when it finds nothing), and
\* the cursor never moves backwards.
C21_CursorAgreesWithLinearSearch ==
  (IsSample /\ SortedDisjoint(probe.args[1])) =>
    LET segments == probe.args[1]
        ret == probe.ret
    IN  /\ Len(ret.seg_idx) = Len(ret.points)
        /\ \A k \in 1..Len(ret.points) :
             LET d == ret.points[k].km
             IN  /\ ret.points[k] = IF ret.linear[k] = 0 THEN GapPoint(d)
                                    ELSE SegPoint(segments[ret.linear[k]], d)
                 /\ \A j \in 1..Len(segments) :
                      (segments[j].start_km <= d /\ d < segments[j].end_km) =>
                        ret.points[k] = SegPoint(segments[j], d)
        /\ \A k \in 1..(Len(ret.seg_idx) - 1) : ret.seg_idx[k] <= ret.seg_idx[k + 1]

\* Samples 5 km apart on the built-in course: the cursor jumps over two
\* segments in one pass and the boundary point 10 km belongs to the later one.
C21_Witness ==
  /\ IsSample
  /\ probe.args = <<get_ehime_marathon_default, 5000>>
  /\ probe.ret.seg_idx[2] = 1
  /\ probe.ret.seg_idx[3] = 4
  /\ probe.ret.points[3].segment_name = "Coastal Outbound (Windy)"
  /\ probe.ret.linear[3] = 4

\* C22: the rows of a pace table follow the course samples in order and
\* distance, each row's cumulative time is the sum of the segment times up to
\* and including it, the cumulative time rises strictly from row to row, and
\* the last row of a returned table carries the sum of all segment times.
C22_CumulativeTimeIsRunningSum ==
  \A i \in Invs :
    /\ Len(results[i]) <= Len(df[i])
    /\ \A k \in 1..Len(results[i]) :
         /\ results[i][k].km = df[i][k].km
         /\ results[i][k].cumulative_time_sec = TimeSum(results[i], k)
         /\ k > 1 => results[i][k].cumulative_time_sec
                        > results[i][k - 1].cumulative_time_sec
    /\ (calls[i] >= 1 /\ ipc[i] = "idle" /\ Len(table[i]) > 0) =>
         /\ Len(table[i]) = Len(df[i])
         /\ table[i][Len(table[i])].cumulative_time_sec = TimeSum(table[i], Len(table[i]))

\* A returned table of at least five rows whose segment times differ.
C22_Witness ==
  /\ calls[1] >= 1
  /\ ipc[1] = "idle"
  /\ Len(table[1]) >= 5
  /\ table[1][2].time_sec # table[1][4].time_sec
  /\ table[1][5].cumulative_time_sec = TimeSum(table[1], 5)
  /\ table[1][5].cumulative_time_sec > table[1][4].cumulative_time_sec

\* C23: a pass over a sample of gradient below 0 solves the speed with
\* gradient * 0.6 and reports the sample's own gradient in its row; a pass over
\* a sample of gradient 0 or more solves with the gradient itself; the sampled
\* rows stay what the sampler returned.
C23_DampingOnlyInSolve ==
  \A i \in Invs :
    /\ stride[i] > 0 => df[i] = sample_at_interval_meters(course, stride[i])
    /\ \A k \in 1..Len(results[i]) :
         LET g == df[i][k].gradient
             used == locals[i][k].calc_gradient
         IN  /\ results[i][k].gradient = g
             /\ g < 0 => used * 10 = g * 6
             /\ g >= 0 => used = g
             /\ results[i][k].speed_ms =
                  solve_speed_for_power(locals[i][k].segment_power, used,
                                        locals[i][k].effective_wind, strategy.mass)

\* A row of a descent: reported with the sample's gradient, solved with the
\* damped one, and slower than the undamped gradient would have made it.
C23_Witness ==
  \E k \in 1..Len(results[1]) :
    /\ df[1][k].gradient < 0
    /\ results[1][k].gradient = df[1][k].gradient
    /\ locals[1][k].calc_gradient > df[1][k].gradient
    /\ results[1][k].speed_ms > SPEED_MIN
    /\ results[1][k].speed_ms <
         solve_speed_for_power(locals[1][k].segment_power, df[1][k].gradient,
                               locals[1][k].effective_wind, strategy.mass)

\* The resampler returned rows.
IsResampled == probe.op = "parse_to_dataframe" /\ probe.ret.rows >= 2

GradientsWithinClip ==
  \A k \in 1..probe.ret.rows :
    /\ probe.ret.gradient[k] >= -GRAD_CLIP
    /\ probe.ret.gradient[k] <= GRAD_CLIP

RECURSIVE SeqSum(_, _, _)
SeqSum(s, lo, hi) == IF lo > hi THEN 0 ELSE s[lo] + SeqSum(s, lo + 1, hi)

C25_WindowNeverBelowFifth ==
  IsResampled =>
    /\ probe.ret.window_size % 2 = 1
    /\ probe.ret.window_size >= 1
    /\ probe.ret.window_size * GRID_M >= probe.args[2]

\* C25 amended: the window length in samples is w / 5 rounded down, raised to
\* 1 if smaller and by one if even: it is odd, at least 1 and never smaller
\* than w / 5 rounded down.
C25_WindowIsFloorMadeOdd ==
  IsResampled =>
    LET w == probe.args[2]
        size == probe.ret.window_size
    IN  /\ size % 2 = 1
        /\ size >= 1
        /\ size >= w \div GRID_M
        /\ size <= Max(1, (w \div GRID_M) + 1)

\* A window of 18 m: three samples, fewer than 18 / 5.
C25_Witness ==
  /\ IsResampled
  /\ probe.args[2] = 18
  /\ probe.ret.window_size = 3

\* C26: whenever a target time is passed to PacingStrategy, 0 included and
\* whether or not a VDOT is passed as well, the baseline speed is
\* 42195 / target_time and does not depend on the VDOT; without a target time
\* it is the VDOT's flat speed times 0.82.
C26_TargetTimeAlwaysWins ==
  phase = "ready" =>
    LET vdot == IF request.vdot = None THEN DEFAULT_VDOT ELSE request.vdot
    IN  IF request.target_time_sec # None
        THEN /\ request.target_time_sec > 0 =>
                  strategy.base_speed_ms = (CANONICAL_M * 100) \div request.target_time_sec
             /\ strategy.base_speed_ms
                  = PacingStrategy([request EXCEPT !.vdot = 300]).base_speed_ms
        ELSE strategy.base_speed_ms = (vdot_to_flat_velocity(vdot) * 82) \div 100

C27_WitnessEmptyCourse ==
  /\ IsSample
  /\ probe.args = << <<>>, 8439 >>
  /\ Len(probe.ret.points) = 6
  /\ probe.ret.points[6].km = CANONICAL_M

\* A finite number above 0.
StrictlyPositive(x) == IsFinite(x) /\ x[1] > 0

\* C28: for every hill_preference in 70..130, every split preference and
\* every course whose gradients lie within [-0.2, 0.2], every sample's
\* multiplier is strictly positive before and after the normalisation, the
\* mean the normalisation divides by is not 0, and every sample's target
\* power is strictly positive.
C28_MultipliersStrictlyPositive ==
  \A i \in Invs :
    (/\ ipc[i] = "profiled"
     /\ strategy.hill_preference \in HillRange
     /\ \A j \in 1..Len(course) :
          course[j].gradient >= -GRAD_CLIP /\ course[j].gradient <= GRAD_CLIP) =>
      LET raw_multipliers == RawMultipliers(strategy, df[i])
      IN  /\ Mean(raw_multipliers) # <<0, 1>>
          /\ \A k \in 1..Len(df[i]) :
               /\ StrictlyPositive(raw_multipliers[k])
               /\ StrictlyPositive(final_multipliers[i][k])
          /\ \A k \in 1..Len(locals[i]) : StrictlyPositive(locals[i][k].segment_power)

\* C29: the distance a returned pace table credits, its number of rows times
\* interval_meters, is the sampled length of the course; in the flat scenario
\* with a target time within the solver's bracket the total time therefore
\* is the target time (to within 1 %, the resolution of the speed grid).
C29_CreditedDistanceIsCourseLength ==
  \A i \in Invs :
    (calls[i] >= 1 /\ ipc[i] = "idle" /\ Len(table[i]) > 0) =>
      LET total_time == table[i][Len(table[i])].cumulative_time_sec
          target == request.target_time_sec * 1000
      IN  /\ Len(table[i]) * stride[i] = SampledLength(course)
          /\ (/\ course = FlatCourse
              /\ request.pacing_preference = "even"
              /\ request.hill_preference = 100
              /\ request.target_time_sec > 0
              /\ SPEED_MIN < (CANONICAL_M * 100) \div request.target_time_sec
              /\ (CANONICAL_M * 100) \div request.target_time_sec <= SPEED_MAX) =>
               Abs(total_time - target) * 100 <= target

====
